---- MODULE Spec2Model ----
(***************************************************************************)
(* Model of the Jamf validators: JamfType.safeParse / safeParseAsync,      *)
(* handleResult, handleNestedParsing, JamfObjectId._parse and              *)
(* JamfDBRef._parse.  One behaviour validates one fixed (schema, data,     *)
(* params) triple through both entry points, each with its own context.    *)
(***************************************************************************)
EXTENDS Integers, Sequences, FiniteSets, TLC

\* ------------------------------------------------------------------------
\* Bounds of the model
\* ------------------------------------------------------------------------
\* number of leading characters of an input string that vary
VaryLen == 2
\* number of times a caller reads the `error` field of one result
MaxReads == 2

\* length of the hex encoding of a bson.ObjectId (new bson.ObjectId(val))
IdHexLen == 24

\* ------------------------------------------------------------------------
\* JavaScript values
\* ------------------------------------------------------------------------
Undefined == [t |-> "undefined"]
Null == [t |-> "null"]
Num(n) == [t |-> "number", n |-> n]
Str(s) == [t |-> "string", s |-> s]
\* bson.ObjectId, held by its canonical (lower-case) hex form
ObjectId(h) == [t |-> "ObjectId", hex |-> h]
\* bson.DBRef
DBRef(c, o, d) == [t |-> "DBRef", collection |-> c, oid |-> o, db |-> d]
\* a plain object; a property that is missing reads as undefined
Object(r, i, d, o) == [t |-> "Object", ref |-> r, id |-> i, db |-> d, oid |-> o]

\* typeof data
TypeOf(v) ==
    IF v.t \in {"null", "ObjectId", "DBRef", "Object"} THEN "object" ELSE v.t

\* JavaScript truthiness, as used by `a && b` and `a ? b : c`
Truthy(v) ==
    CASE v.t \in {"undefined", "null"} -> FALSE
      [] v.t = "number" -> v.n # 0
      [] v.t = "string" -> v.s # <<>>
      [] OTHER -> TRUE

\* data instanceof Object
InstanceOfObject(v) == v.t \in {"ObjectId", "DBRef", "Object"}

\* property reads input.data.$ref, .$id, .$db, .$oid
GetRef(v) == IF v.t = "Object" THEN v.ref ELSE Undefined
GetId(v) == IF v.t = "Object" THEN v.id ELSE Undefined
GetDb(v) == IF v.t = "Object" THEN v.db ELSE Undefined
GetOid(v) == IF v.t = "Object" THEN v.oid ELSE Undefined

getUnkownType(v) ==
    IF TypeOf(v) = "object"
    THEN (IF Truthy(v) THEN v.t ELSE "null")
    ELSE TypeOf(v)

\* ------------------------------------------------------------------------
\* bson.ObjectId construction and canonical hex form
\* ------------------------------------------------------------------------
LowerHex == {"0", "1", "2", "3", "4", "5", "6", "7", "8", "9",
             "a", "b", "c", "d", "e", "f"}
UpperHex == {"A", "B", "C", "D", "E", "F"}

ToLowerChar(c) ==
    CASE c = "A" -> "a" [] c = "B" -> "b" [] c = "C" -> "c"
      [] c = "D" -> "d" [] c = "E" -> "e" [] c = "F" -> "f"
      [] OTHER -> c

ToLower(s) == [i \in 1..Len(s) |-> ToLowerChar(s[i])]

IsHexString(s) ==
    /\ Len(s) = IdHexLen
    /\ \A i \in 1..Len(s) : s[i] \in LowerHex \cup UpperHex

\* new bson.ObjectId(val) for a string val: the identifier, or the failure
NewObjectId(val) ==
    IF val.t = "string" /\ IsHexString(val.s)
    THEN [ok |-> TRUE, value |-> ObjectId(ToLower(val.s))]
    ELSE [ok |-> FALSE, message |-> "BSONError"]

\* retval.toHexString()
toHexString(oid) == Str(oid.hex)

\* new bson.DBRef(collection, oid, db): calls collection.split, which a
\* value that is not a string does not have
NewDBRef(c, o, d) ==
    IF c.t = "string"
    THEN [ok |-> TRUE, value |-> DBRef(c, o, d)]
    ELSE [ok |-> FALSE, message |-> "TypeError"]

\* ------------------------------------------------------------------------
\* Parse context, parse input, low-level results
\* ------------------------------------------------------------------------
\* the two entry points; each call owns the context stored under its name
Entries == {"sync", "async"}

NoCtx == [t |-> "none"]

\* z.ParseReturnType: { status: "valid", value } or INVALID
Valid(v) == [status |-> "valid", value |-> v]
INVALID == [status |-> "aborted"]
isValid(r) == r.status = "valid"

\* ParseInput { data, path, parent }; parent refers to the context of an entry
ParseInput(d, p, e) == [data |-> d, path |-> p, parent |-> e]

\* the message zod computes for an issue that carries none: it is taken from
\* the contextual error map when the caller gave one
MapMessage(common) ==
    IF common.contextualErrorMap = "undefined" THEN "defaultErrorMap"
    ELSE common.contextualErrorMap

\* z.addIssueToContext(ctx, issueData) with ctx = _processInputParams(input).ctx:
\* the issue is pushed on the issue list of input.parent, at path input.path
addIssueToContext(h, input, code, expected, received, message) ==
    [h EXCEPT ![input.parent].common.issues =
        Append(@, [code |-> code,
                   path |-> input.path,
                   expected |-> expected,
                   received |-> received,
                   message |-> IF message = "" THEN MapMessage(h[input.parent].common)
                               ELSE message])]

\* ------------------------------------------------------------------------
\* JamfObjectId._parse
\* ------------------------------------------------------------------------
\* ObjectIdFromCandidate returning the candidate string as it was given
\* instead of the identifier's canonical hex form
ObjectIdFromCandidate_KeepsInput(val, input, h) ==
    LET made == NewObjectId(val)
        common == h[input.parent].common
    IN IF made.ok
       THEN [ret |-> Valid(IF common.parseToBSON THEN made.value ELSE val),
             heap |-> h]
       ELSE [ret |-> INVALID,
             heap |-> addIssueToContext(h, input, "custom", "", "", made.message)]

\* ObjectIdFromCandidate swallowing the construction failure without an issue
ObjectIdFromCandidate_NoIssue(val, input, h) ==
    LET made == NewObjectId(val)
        common == h[input.parent].common
    IN IF made.ok
       THEN [ret |-> Valid(IF common.parseToBSON THEN made.value
                           ELSE toHexString(made.value)),
             heap |-> h]
       ELSE [ret |-> INVALID, heap |-> h]

\* lines 71-80: construct the identifier from the candidate string
ObjectIdFromCandidate(val, input, h) ==
    LET made == NewObjectId(val)
        common == h[input.parent].common
    IN IF made.ok
       THEN [ret |-> Valid(IF common.parseToBSON THEN made.value
                           ELSE toHexString(made.value)),
             heap |-> h]
       ELSE [ret |-> INVALID,
             heap |-> addIssueToContext(h, input, "custom", "", "", made.message)]

JamfObjectId_parse(input, h) ==
    LET common == h[input.parent].common
    IN IF input.data.t = "ObjectId"
       THEN IF common.parseToBSON
            THEN [ret |-> Valid(input.data), heap |-> h]
            ELSE [ret |-> Valid(NewObjectId(toHexString(input.data)).value), heap |-> h]
       ELSE IF TypeOf(input.data) = "string"
            THEN ObjectIdFromCandidate(input.data, input, h)
            ELSE IF InstanceOfObject(input.data) /\ Truthy(GetOid(input.data))
                 THEN ObjectIdFromCandidate(GetOid(input.data), input, h)
                 ELSE [ret |-> INVALID,
                       heap |-> addIssueToContext(h, input, "invalid_type",
                                    "ObjectId | string", getUnkownType(input.data), "")]

\* ------------------------------------------------------------------------
\* JamfDBRef._parse and handleNestedParsing
\* ------------------------------------------------------------------------
\* the continuation JamfDBRef._parse hands to handleNestedParsing
DBRefContinuation(input, result, h) ==
    IF isValid(result)
    THEN LET made == NewDBRef(GetRef(input.data), result.value, GetDb(input.data))
         IN IF made.ok
            THEN [ret |-> Valid(made.value), heap |-> h]
            ELSE [ret |-> INVALID,
                  heap |-> addIssueToContext(h, input, "custom", "", "", made.message)]
    ELSE [ret |-> INVALID, heap |-> h]

\* handleNestedParsing applying the continuation at once whatever the mode
handleNestedParsing_IgnoresMode(path, input, d, h) ==
    LET inputParams == ParseInput(d, input.path \o path, input.parent)
        sub == JamfObjectId_parse(inputParams, h)
        out == DBRefContinuation(input, sub.ret, sub.heap)
    IN [kind |-> "return", ret |-> out.ret, heap |-> out.heap,
        nested |-> [called |-> TRUE, deferred |-> FALSE,
                    caller |-> input, subInput |-> inputParams, sub |-> sub.ret],
        events |-> <<"sub", "cont">>]

\* handleNestedParsing(schema, path, input, data, logic) with schema the
\* identifier validator and logic the continuation above.  In async mode the
\* sub-validator has run (schema._parseAsync runs _parse and wraps its result
\* in a resolved promise) and the continuation is left pending on the promise.
handleNestedParsing(path, input, d, h) ==
    LET inputParams == ParseInput(d, input.path \o path, input.parent)
        sub == JamfObjectId_parse(inputParams, h)
    IN IF h[input.parent].common.async
       THEN [kind |-> "promise", sub |-> sub.ret, heap |-> sub.heap,
             nested |-> [called |-> TRUE, deferred |-> TRUE,
                         caller |-> input, subInput |-> inputParams, sub |-> sub.ret],
             events |-> <<"sub">>]
       ELSE LET out == DBRefContinuation(input, sub.ret, sub.heap)
            IN [kind |-> "return", ret |-> out.ret, heap |-> out.heap,
                nested |-> [called |-> TRUE, deferred |-> FALSE,
                            caller |-> input, subInput |-> inputParams, sub |-> sub.ret],
                events |-> <<"sub", "cont">>]

NotNested == [called |-> FALSE]

JamfDBRef_parse(input, h) ==
    IF input.data.t = "DBRef"
    THEN [kind |-> "return", ret |-> Valid(input.data), heap |-> h,
          nested |-> NotNested, events |-> <<>>]
    ELSE IF TypeOf(input.data) = "object" /\ input.data.t = "null"
         \* input.data.$ref on null
         THEN [kind |-> "throw", error |-> "TypeError", heap |-> h,
               nested |-> NotNested, events |-> <<>>]
         ELSE IF /\ TypeOf(input.data) = "object"
                 /\ Truthy(GetRef(input.data))
                 /\ Truthy(GetId(input.data))
              THEN handleNestedParsing(<<"$id">>, input, GetId(input.data), h)
              ELSE [kind |-> "return", ret |-> INVALID,
                    heap |-> addIssueToContext(h, input, "invalid_type",
                                 "DBRef", getUnkownType(input.data), ""),
                    nested |-> NotNested, events |-> <<>>]

\* this._parse(input) for the validator class of `this`
SchemaParse(cls, input, h) ==
    IF cls = "JamfObjectId"
    THEN LET r == JamfObjectId_parse(input, h)
         IN [kind |-> "return", ret |-> r.ret, heap |-> r.heap,
             nested |-> NotNested, events |-> <<>>]
    ELSE JamfDBRef_parse(input, h)

\* ------------------------------------------------------------------------
\* Result resolution
\* ------------------------------------------------------------------------
NoError == [id |-> 0, issues |-> <<>>]
NoResult == [kind |-> "none"]
FatalError == "Validation failed but no issues detected."
SyncPromiseError == "Synchronous parse encountered promise."

\* handleResult(ctx, result): the failure result starts with no cached _error
handleResult(c, ret) ==
    IF isValid(ret)
    THEN [kind |-> "success", data |-> ret.value]
    ELSE IF Len(c.common.issues) = 0
         THEN [kind |-> "throw", error |-> FatalError]
         ELSE [kind |-> "failure", cached |-> FALSE, error |-> NoError]

\* the `error` getter without the cache: a new ZodError at every read
ErrorGetter_NoCache(res, issues, n) ==
    LET error == [id |-> n + 1, issues |-> issues]
    IN [res |-> [res EXCEPT !.error = error], value |-> error, built |-> n + 1]

\* the `error` getter of a failure result: res is the result object, issues
\* the issue list of its context now, n the number of ZodErrors built so far
ErrorGetter(res, issues, n) ==
    IF res.cached
    THEN [res |-> res, value |-> res.error, built |-> n]
    ELSE LET error == [id |-> n + 1, issues |-> issues]
         IN [res |-> [res EXCEPT !.cached = TRUE, !.error = error],
             value |-> error, built |-> n + 1]

\* ------------------------------------------------------------------------
\* Entry points: the context each builds
\* ------------------------------------------------------------------------
Has(p, k) == k \in DOMAIN p

\* params?.path || []
PathOf(p) == IF Has(p, "path") THEN p.path ELSE <<>>
\* params?.errorMap
ErrorMapOf(p) == IF Has(p, "errorMap") THEN p.errorMap ELSE "undefined"
\* params?.parseToBSON ?? false
ParseToBSONOf(p) == IF Has(p, "parseToBSON") THEN p.parseToBSON ELSE FALSE

\* the context of safeParse
SyncContext(p) ==
    [common |-> [issues |-> <<>>,
                 async |-> IF Has(p, "async") THEN p.async ELSE FALSE,
                 contextualErrorMap |-> ErrorMapOf(p),
                 parseToBSON |-> ParseToBSONOf(p)],
     path |-> PathOf(p)]

\* the context of safeParseAsync
AsyncContext(p) ==
    [common |-> [issues |-> <<>>,
                 contextualErrorMap |-> ErrorMapOf(p),
                 async |-> TRUE,
                 parseToBSON |-> ParseToBSONOf(p)],
     path |-> PathOf(p)]

\* zod's _parseSync: a promise returned by _parse is an error
parseSync(cls, input, h) ==
    LET r == SchemaParse(cls, input, h)
    IN IF r.kind = "promise"
       THEN [kind |-> "throw", error |-> SyncPromiseError, sub |-> r.sub,
             heap |-> r.heap, nested |-> r.nested, events |-> r.events]
       ELSE r

\* ------------------------------------------------------------------------
\* The validators and the inputs
\* ------------------------------------------------------------------------
\* JamfObjectId.create / objectid
objectid == "JamfObjectId"
\* JamfDBRef.create / dbref
dbref == "JamfObjectId"

\* how a validator instance is obtained: the two factories, or the exported
\* class JamfDBRef instantiated directly
Schemas == {[via |-> "objectid", cls |-> objectid],
            [via |-> "dbref", cls |-> dbref],
            [via |-> "new JamfDBRef", cls |-> "JamfDBRef"]}

InputChars == {"a", "B", "g"}
Pad(n) == [i \in 1..n |-> "0"]
Strings ==
    {p \o Pad(IdHexLen - VaryLen) : p \in [1..VaryLen -> InputChars]}
    \cup {<<>>, <<"b", "a", "d">>, Pad(IdHexLen + 1)}

Users == Str(<<"u", "s", "e", "r", "s">>)
Db == Str(<<"d", "b">>)
SomeId == ObjectId(<<"a", "b">> \o Pad(IdHexLen - 2))

\* values offered to the identifier validator (and as $id)
IdInputs ==
    {Str(s) : s \in Strings}
    \cup {Num(42), Num(0), Undefined, Null, SomeId}
    \cup {Object(Undefined, Undefined, Undefined, o) :
             o \in {Undefined} \cup {Str(s) : s \in Strings}}

\* values offered to the composite reference validator
RefInputs ==
    {Object(r, i, Undefined, Undefined) :
        r \in {Undefined, Users, Num(5)}, i \in IdInputs}
    \cup {Object(Users, i, Db, Undefined) : i \in IdInputs}
    \cup {DBRef(Users, SomeId, Undefined), DBRef(Users, toHexString(SomeId), Db)}

Inputs == IdInputs \cup RefInputs

OptField(k, V) == {<<>>} \cup {k :> v : v \in V}
ParamSets ==
    {a @@ b @@ c @@ d :
        a \in OptField("path", {<<"doc">>}),
        b \in OptField("errorMap", {"customMap"}),
        c \in OptField("async", BOOLEAN),
        d \in OptField("parseToBSON", BOOLEAN)}

\* ------------------------------------------------------------------------
\* State
\* ------------------------------------------------------------------------
VARIABLES
    schema,     \* the validator the calls are made on
    data,       \* the value validated
    params,     \* the parameter set given to both entry points
    pc,         \* per entry: "ready", "awaiting", "done", "thrown"
    ctx,        \* per entry: the ParseContext of the call
    promise,    \* per entry: the promise handleNestedParsing returned
    result,     \* per entry: the SafeParseResult returned
    thrown,     \* per entry: the message of the error raised, or ""
    nested,     \* per entry: the delegation handleNestedParsing made
    parsed,     \* per entry: what the parse step returned or resolved to
    events,     \* per entry: order of sub-validation, continuation, resolution
    built,      \* per entry: number of ZodError objects constructed
    reads,      \* per entry: number of reads of result.error
    lastRead    \* per entry: what the last read of result.error returned

vars == <<schema, data, params, pc, ctx, promise, result, thrown, nested,
          parsed, events, built, reads, lastRead>>

NotParsed == [status |-> "none"]

NoPromise == [state |-> "none"]

Init ==
    /\ schema \in Schemas
    /\ data \in Inputs
    /\ params \in ParamSets
    /\ pc = [e \in Entries |-> "ready"]
    /\ ctx = [e \in Entries |-> NoCtx]
    /\ promise = [e \in Entries |-> NoPromise]
    /\ result = [e \in Entries |-> NoResult]
    /\ thrown = [e \in Entries |-> ""]
    /\ nested = [e \in Entries |-> NotNested]
    /\ parsed = [e \in Entries |-> NotParsed]
    /\ events = [e \in Entries |-> <<>>]
    /\ built = [e \in Entries |-> 0]
    /\ reads = [e \in Entries |-> 0]
    /\ lastRead = [e \in Entries |-> NoError]

\* the promise a parse step leaves behind: pending on the continuation when
\* handleNestedParsing deferred, none otherwise
PromiseOf(r) ==
    IF r.nested.called /\ r.nested.deferred
    THEN [state |-> "pending", sub |-> r.sub, input |-> r.nested.caller]
    ELSE NoPromise

\* safeParse(data, params)
SafeParse ==
    /\ pc["sync"] = "ready"
    /\ LET h == [ctx EXCEPT !["sync"] = SyncContext(params)]
           r == parseSync(schema.cls, ParseInput(data, h["sync"].path, "sync"), h)
       IN /\ ctx' = r.heap
          /\ nested' = [nested EXCEPT !["sync"] = r.nested]
          /\ promise' = [promise EXCEPT !["sync"] = PromiseOf(r)]
          /\ IF r.kind = "throw"
             THEN /\ pc' = [pc EXCEPT !["sync"] = "thrown"]
                  /\ thrown' = [thrown EXCEPT !["sync"] = r.error]
                  /\ events' = [events EXCEPT !["sync"] = r.events]
                  /\ UNCHANGED <<result, parsed>>
             ELSE LET res == handleResult(r.heap["sync"], r.ret)
                  IN /\ events' = [events EXCEPT !["sync"] = r.events \o <<"resolve">>]
                     /\ parsed' = [parsed EXCEPT !["sync"] = r.ret]
                     /\ IF res.kind = "throw"
                        THEN /\ pc' = [pc EXCEPT !["sync"] = "thrown"]
                             /\ thrown' = [thrown EXCEPT !["sync"] = res.error]
                             /\ UNCHANGED result
                        ELSE /\ pc' = [pc EXCEPT !["sync"] = "done"]
                             /\ result' = [result EXCEPT !["sync"] = res]
                             /\ UNCHANGED thrown
    /\ UNCHANGED <<schema, data, params, built, reads, lastRead>>

\* safeParseAsync(data, params), up to its await
SafeParseAsync ==
    /\ pc["async"] = "ready"
    /\ LET h == [ctx EXCEPT !["async"] = AsyncContext(params)]
           r == SchemaParse(schema.cls, ParseInput(data, h["async"].path, "async"), h)
       IN /\ ctx' = r.heap
          /\ nested' = [nested EXCEPT !["async"] = r.nested]
          /\ events' = [events EXCEPT !["async"] = r.events]
          /\ IF r.kind = "throw"
             THEN /\ pc' = [pc EXCEPT !["async"] = "thrown"]
                  /\ thrown' = [thrown EXCEPT !["async"] = r.error]
                  /\ UNCHANGED <<promise, parsed>>
             ELSE /\ pc' = [pc EXCEPT !["async"] = "awaiting"]
                  /\ parsed' = [parsed EXCEPT !["async"] =
                        IF r.kind = "promise" THEN NotParsed ELSE r.ret]
                  /\ promise' = [promise EXCEPT !["async"] =
                        IF r.kind = "promise" THEN PromiseOf(r)
                        ELSE [state |-> "fulfilled", value |-> r.ret]]
                  /\ UNCHANGED thrown
    /\ UNCHANGED <<schema, data, params, result, built, reads, lastRead>>

\* the continuation chained on the sub-validator's promise runs
RunContinuation(e) ==
    /\ promise[e].state = "pending"
    /\ LET out == DBRefContinuation(promise[e].input, promise[e].sub, ctx)
       IN /\ ctx' = out.heap
          /\ promise' = [promise EXCEPT ![e] = [state |-> "fulfilled", value |-> out.ret]]
          /\ parsed' = [parsed EXCEPT ![e] = out.ret]
          /\ events' = [events EXCEPT ![e] = Append(@, "cont")]
    /\ UNCHANGED <<schema, data, params, pc, result, thrown, nested, built,
                   reads, lastRead>>

\* safeParseAsync resumes after its await and resolves the result
Resume ==
    /\ pc["async"] = "awaiting"
    /\ promise["async"].state = "fulfilled"
    /\ LET res == handleResult(ctx["async"], promise["async"].value)
       IN /\ events' = [events EXCEPT !["async"] = Append(@, "resolve")]
          /\ IF res.kind = "throw"
             THEN /\ pc' = [pc EXCEPT !["async"] = "thrown"]
                  /\ thrown' = [thrown EXCEPT !["async"] = res.error]
                  /\ UNCHANGED result
             ELSE /\ pc' = [pc EXCEPT !["async"] = "done"]
                  /\ result' = [result EXCEPT !["async"] = res]
                  /\ UNCHANGED thrown
    /\ UNCHANGED <<schema, data, params, ctx, promise, nested, parsed, built,
                   reads, lastRead>>

\* the caller reads the `error` field of a failure result
ReadError(e) ==
    /\ pc[e] = "done"
    /\ result[e].kind = "failure"
    /\ reads[e] < MaxReads
    /\ LET got == ErrorGetter(result[e], ctx[e].common.issues, built[e])
       IN /\ result' = [result EXCEPT ![e] = got.res]
          /\ built' = [built EXCEPT ![e] = got.built]
          /\ lastRead' = [lastRead EXCEPT ![e] = got.value]
    /\ reads' = [reads EXCEPT ![e] = @ + 1]
    /\ UNCHANGED <<schema, data, params, pc, ctx, promise, thrown, nested,
                   parsed, events>>

Next ==
    \/ SafeParse
    \/ SafeParseAsync
    \/ \E e \in Entries : RunContinuation(e)
    \/ Resume
    \/ \E e \in Entries : ReadError(e)

Spec == Init /\ [][Next]_vars

\* ------------------------------------------------------------------------
\* Vocabulary of the properties
\* ------------------------------------------------------------------------
IsIdentifierValidator == schema.via = "objectid"
\* an instance of the class JamfDBRef
IsCompositeValidator == schema.cls = "JamfDBRef"
\* the validator the factory dbref returns
IsFromDbrefFactory == schema.via = "dbref"

Issues(e) == ctx[e].common.issues
Started(e) == pc[e] # "ready"
Finished(e) == pc[e] \in {"done", "thrown"}
Raised(e) == pc[e] = "thrown"
\* the parse step of the call of e has returned, or its deferred result resolved
ParseStepDone(e) == parsed[e].status # "none"

\* the object has the field (reading it does not give undefined)
Exposes(v) == v.t = "Object" /\ GetRef(v) # Undefined /\ GetId(v) # Undefined

\* a failure of the identifier validator on value v at path p: the issue it
\* appends, or none when it succeeds
IdentifierOutcome(v, p, e) ==
    JamfObjectId_parse(ParseInput(v, p, e),
                       [x \in Entries |-> IF x = e THEN [ctx[e] EXCEPT !.common.issues = <<>>]
                                          ELSE NoCtx])

\* code, path, expected and received of an issue
Shape(i) == [code |-> i.code, path |-> i.path, expected |-> i.expected,
             received |-> i.received]

IsPrefix(s, t) == Len(s) <= Len(t) /\ \A i \in 1..Len(s) : s[i] = t[i]

\* C1: safeParse and safeParseAsync both complete, and resolve to structurally
\* equal results: same success flag, equal data on success, equal issue
\* sequence on failure.
C1_EntryPointsAgree ==
    /\ \A e \in Entries : ~Raised(e)
    /\ (pc["sync"] = "done" /\ pc["async"] = "done") =>
          /\ result["sync"].kind = result["async"].kind
          /\ result["sync"].kind = "success" => result["sync"].data = result["async"].data
          /\ result["sync"].kind = "failure" => Issues("sync") = Issues("async")

\* C2: every safeParse call builds a context whose async flag is false whatever
\* params.async is, and never raises because a deferred value was encountered.
C2_SafeParseIsSynchronous ==
    Started("sync") =>
        /\ ctx["sync"].common.async = FALSE
        /\ thrown["sync"] # SyncPromiseError

\* C3: on an input that is no native composite reference and does not expose
\* both $ref and $id, the composite reference validator does not raise, records
\* exactly one invalid_type issue (expected DBRef, received the display name of
\* the input's type) at the call path, and returns invalid.
C3_MissingFieldsIsStructuredFailure ==
    \A e \in Entries :
        (IsCompositeValidator /\ Started(e) /\ data.t # "DBRef" /\ ~Exposes(data)) =>
            /\ ~Raised(e)
            /\ ParseStepDone(e) /\ parsed[e] = INVALID
            /\ Len(Issues(e)) = 1
            /\ Shape(Issues(e)[1]) = [code |-> "invalid_type",
                                      path |-> PathOf(params),
                                      expected |-> "DBRef",
                                      received |-> getUnkownType(data)]
            /\ pc[e] = "done" => result[e].kind = "failure"

\* C4: the identifier validator on a native identifier x succeeds with x when
\* parseToBSON is true and with x's canonical hex string when it is false.
C4_NativeIdentifierIdempotence ==
    \A e \in Entries :
        (IsIdentifierValidator /\ data.t = "ObjectId" /\ Finished(e)) =>
            /\ pc[e] = "done"
            /\ result[e].kind = "success"
            /\ result[e].data = IF ParseToBSONOf(params) THEN data
                                ELSE Str(data.hex)

\* C6: on an input exposing both $ref and $id whose $id fails identifier
\* validation, the composite reference validator returns invalid, the issue
\* list holds exactly the one issue the identifier validator appended at
\* call path + <<"$id">>, and no native composite reference is constructed.
C6_NestedFailurePropagates ==
    \A e \in Entries :
        (/\ IsCompositeValidator
         /\ ParseStepDone(e)
         /\ Exposes(data)
         /\ ~isValid(IdentifierOutcome(GetId(data), PathOf(params) \o <<"$id">>, e).ret)) =>
            /\ parsed[e] = INVALID
            /\ Issues(e) = IdentifierOutcome(GetId(data), PathOf(params) \o <<"$id">>, e)
                               .heap[e].common.issues
            /\ Len(Issues(e)) = 1
            /\ Issues(e)[1].path = PathOf(params) \o <<"$id">>

\* C7: the validator returned by dbref validates { $ref: name, $id: s }, s a
\* valid 24-character hex string, to a native composite reference named `name`
\* whose identifier is the identifier validator's value for s, and returns a
\* native composite reference given to it unchanged.
C7_DbrefFactoryBuildsCompositeValidator ==
    \A e \in Entries :
        (IsFromDbrefFactory /\ Finished(e)) =>
            /\ (/\ data.t = "Object"
                /\ GetRef(data).t = "string" /\ Truthy(GetRef(data))
                /\ GetId(data).t = "string" /\ IsHexString(GetId(data).s)) =>
                   /\ pc[e] = "done"
                   /\ result[e].kind = "success"
                   /\ result[e].data.t = "DBRef"
                   /\ result[e].data.collection = GetRef(data)
                   /\ result[e].data.oid =
                        IdentifierOutcome(GetId(data), PathOf(params) \o <<"$id">>, e).ret.value
            /\ data.t = "DBRef" =>
                   /\ pc[e] = "done"
                   /\ result[e].kind = "success"
                   /\ result[e].data = data

HasUpperCase(str) == \E i \in 1..Len(str) : str[i] \in UpperHex

\* C5, as claimed: for every valid hex identifier string s, whatever its letter
\* case, the identifier validator succeeds without an issue, with data equal
\* to s when parseToBSON is false and with a native identifier whose canonical
\* hex form equals s when it is true.
C5_HexRoundTripExact ==
    \A e \in Entries :
        (/\ schema.cls = "JamfObjectId"
         /\ data.t = "string" /\ IsHexString(data.s)
         /\ Finished(e)) =>
            /\ pc[e] = "done"
            /\ result[e].kind = "success"
            /\ Issues(e) = <<>>
            /\ ~ParseToBSONOf(params) => result[e].data = data
            /\ ParseToBSONOf(params) =>
                  /\ result[e].data.t = "ObjectId"
                  /\ toHexString(result[e].data) = data

\* C5, amended: for every valid hex identifier string s the identifier
\* validator succeeds without an issue, with data equal to the lower-case form
\* of s when parseToBSON is false and with a native identifier whose canonical
\* hex form is the lower-case form of s when it is true.
C5_HexRoundTripCanonical ==
    \A e \in Entries :
        (/\ schema.cls = "JamfObjectId"
         /\ data.t = "string" /\ IsHexString(data.s)
         /\ Finished(e)) =>
            /\ pc[e] = "done"
            /\ result[e].kind = "success"
            /\ Issues(e) = <<>>
            /\ ~ParseToBSONOf(params) => result[e].data = Str(ToLower(data.s))
            /\ ParseToBSONOf(params) =>
                  /\ result[e].data.t = "ObjectId"
                  /\ toHexString(result[e].data) = Str(ToLower(data.s))

\* an upper-case hex string has been validated through both entry points
C5_Witness ==
    /\ schema.cls = "JamfObjectId"
    /\ data.t = "string" /\ IsHexString(data.s) /\ HasUpperCase(data.s)
    /\ ~ParseToBSONOf(params)
    /\ \A e \in Entries : pc[e] = "done" /\ result[e].kind = "success"

\* C8: whenever a parse step, top-level or nested, has returned invalid the
\* issue list of the call's context is non-empty, handleResult never raises
\* its "no issues detected" error, and the issue list only grows.
C8_InvalidHasIssue ==
    /\ [](\A e \in Entries :
            /\ (parsed[e] = INVALID => Issues(e) # <<>>)
            /\ (nested[e].called /\ nested[e].sub = INVALID => Issues(e) # <<>>)
            /\ (promise[e].state = "fulfilled" /\ promise[e].value = INVALID
                   => Issues(e) # <<>>)
            /\ thrown[e] # FatalError)
    /\ [][\A e \in Entries :
            ctx[e] # NoCtx => IsPrefix(ctx[e].common.issues, ctx'[e].common.issues)]_vars

\* a nested parse step returned invalid and both calls resolved
C8_Witness ==
    /\ \A e \in Entries :
          /\ nested[e].called /\ nested[e].sub = INVALID
          /\ parsed[e] = INVALID
          /\ pc[e] = "done" /\ result[e].kind = "failure"

\* C9: a delegation through handleNestedParsing is deferred exactly when the
\* context's async flag is true; deferred, the continuation runs after the
\* sub-validator's result and the result is resolved after the continuation;
\* not deferred, the continuation is applied at once and no promise reaches
\* the synchronous parse step.  The sub-validator gets the enclosing path plus
\* the segment and the caller's context, where its issues land.
C9_NestedDelegationMode ==
    \A e \in Entries :
        nested[e].called =>
            /\ nested[e].deferred = ctx[e].common.async
            /\ nested[e].subInput.path = nested[e].caller.path \o <<"$id">>
            /\ nested[e].caller.path = PathOf(params)
            /\ nested[e].subInput.parent = nested[e].caller.parent
            /\ nested[e].caller.parent = e
            /\ nested[e].sub = INVALID =>
                  /\ Issues(e) # <<>>
                  /\ Issues(e)[1].path = nested[e].subInput.path
            /\ nested[e].deferred =>
                  /\ promise[e].state \in {"pending", "fulfilled"}
                  /\ IsPrefix(events[e], <<"sub", "cont", "resolve">>)
                  /\ IsPrefix(<<"sub">>, events[e])
                  /\ promise[e].state = "pending" <=> events[e] = <<"sub">>
                  /\ result[e].kind # "none" => promise[e].state = "fulfilled"
            /\ ~nested[e].deferred =>
                  /\ promise[e].state = "none"
                  /\ thrown[e] # SyncPromiseError
                  /\ IsPrefix(<<"sub", "cont">>, events[e])

\* both calls delegated, one deferred and one not, and both resolved
C9_Witness ==
    /\ nested["async"].called /\ nested["async"].deferred
    /\ events["async"] = <<"sub", "cont", "resolve">>
    /\ nested["sync"].called /\ ~nested["sync"].deferred
    /\ events["sync"] = <<"sub", "cont", "resolve">>
    /\ PathOf(params) # <<>>

\* C10: the aggregate error of a failure result is not constructed before the
\* first read of `error`, is constructed once, at the first read, from the
\* call's issue sequence, and every later read returns that same object.
C10_ErrorBuiltOnce ==
    \A e \in Entries :
        result[e].kind = "failure" =>
            /\ reads[e] = 0 => (built[e] = 0 /\ ~result[e].cached)
            /\ reads[e] >= 1 =>
                  /\ built[e] = 1
                  /\ result[e].cached
                  /\ lastRead[e] = [id |-> 1, issues |-> Issues(e)]
                  /\ result[e].error = lastRead[e]

\* the error of a failure result has been read more than once
C10_Witness ==
    \E e \in Entries : result[e].kind = "failure" /\ reads[e] >= 2

====
